---- MODULE Spec2Model ----
(***************************************************************************)
(* A model of the scoring and competitive-comparison engine of             *)
(* llm_seo_agent: CompetitorTracker (competitor_tracker.py), the page      *)
(* extraction of WebCrawler (crawler.py), ContentAnalyzer                  *)
(* (content_analyzer.py) and PerformanceMonitor (performance_monitor.py).  *)
(*                                                                         *)
(* The module holds eight specifications over one set of variables:        *)
(*   Spec          analyze_competitors: the primary analysis, the          *)
(*                 semaphore-bounded competitor tasks, gather, collection  *)
(*   SpecSite      the site analysis of the crawled pages: extraction and  *)
(*                 the score functions                                     *)
(*   SpecAuthority _analyze_authority_signals in two runs of the program   *)
(*   SpecTrend     _analyze_trends on a stored history                     *)
(*   SpecScores    the score functions, each called on its own arguments   *)
(*   SpecPage      analyze_content and _crawl_single_page on one HTML page *)
(*   SpecInsights  the insights and recommendations built from the analyses *)
(*   SpecCrawl     crawl_website: batches of concurrent page fetches       *)
(* Each specification leaves the variables of the others at their idle     *)
(* values.                                                                 *)
(***************************************************************************)
EXTENDS Integers, Sequences, FiniteSets, TLC

VARIABLES
    \* ---- analyze_competitors
    pc,                  \* position of analyze_competitors
    your_domain,         \* argument your_domain
    competitor_domains,  \* argument competitor_domains
    max_concurrent,      \* CompetitorTracker.max_concurrent
    your_analysis,       \* outcome of the primary _analyze_single_site
    task_state,          \* per competitor task: waiting / running / done
    sem_value,           \* the semaphore's counter
    competitor_results,  \* the list asyncio.gather hands back
    competitor_analyses, \* the dict competitor_analyses
    out_of_order,        \* history: some task completed before a lower one
    \* ---- _analyze_trends
    trend_pc,            \* position of the _analyze_trends call
    historical_data,     \* argument historical_data: metric -> stored values, oldest first
    current_metrics,     \* argument current_metrics: the freshly observed values
    trends,              \* the dict _analyze_trends returns
    \* ---- _analyze_authority_signals
    started,             \* the runs of the program (interpreter processes) started
    str_hash,            \* per run: the value of hash() on each domain string
    authority_seen,      \* the values _analyze_authority_signals has returned
    \* ---- the site analysis of _analyze_single_site
    site_pc,             \* position of the site analysis
    fetched,             \* the pages the crawl fetches, home page first: HTML and load time
    site_analysis,       \* what _analyze_single_site returns
    \* ---- the score functions called on their own
    score_pc,            \* position of the call
    score_call,          \* the function called and its arguments
    score_result,        \* the value returned
    \* ---- the extraction of one HTML page
    page_pc,             \* position: call / analyzed / crawled
    page_html,           \* the HTML of the page
    page_result,         \* what analyze_content or _crawl_single_page returns
    \* ---- the insights and recommendations of analyze_competitors
    ins_pc,              \* position: analyses / insights / done
    ins_your_analysis,   \* your_analysis as _analyze_single_site returned it
    ins_competitors,     \* competitor_analyses in dict order; the domain is the index
    insights,            \* what _generate_competitive_insights returns
    recommendations,     \* what _generate_competitive_recommendations returns
    \* ---- WebCrawler.crawl_website
    crawl_pc,            \* position: loop (head of the while loop) / batch (in gather) / done
    site_links,          \* the site: per URL the internal links of its page, as result.links lists them
    max_pages,           \* argument max_pages
    crawler_concurrent,  \* WebCrawler.max_concurrent
    urls_to_crawl,       \* the list urls_to_crawl
    visited_urls,        \* WebCrawler.visited_urls
    page_results,        \* the list results, as the URLs of the CrawlResults
    crawled_count,       \* crawled_count
    batch_tasks,         \* the tasks of the current batch: URL and created / requested / ok / failed
    requests             \* history: per URL the number of session.get calls

cmp_vars == <<pc, your_domain, competitor_domains, max_concurrent, your_analysis,
              task_state, sem_value, competitor_results, competitor_analyses,
              out_of_order>>

trend_vars == <<trend_pc, historical_data, current_metrics, trends>>

auth_vars == <<started, str_hash, authority_seen>>

site_vars == <<site_pc, fetched, site_analysis>>

score_vars == <<score_pc, score_call, score_result>>

page_vars == <<page_pc, page_html, page_result>>

ins_vars == <<ins_pc, ins_your_analysis, ins_competitors, insights, recommendations>>

crawl_vars == <<crawl_pc, site_links, max_pages, crawler_concurrent, urls_to_crawl, visited_urls,
                page_results, crawled_count, batch_tasks, requests>>

vars == <<cmp_vars, trend_vars, auth_vars, site_vars, score_vars, page_vars, ins_vars, crawl_vars>>

\* ------------------------------------------------------------------------
\* Bounds of the model
\* ------------------------------------------------------------------------

\* Longest competitor_domains list handed to analyze_competitors.
MaxDomains == 7

\* Largest max_concurrent a CompetitorTracker is constructed with.
MaxConcurrentLimit == 3

\* ------------------------------------------------------------------------
\* Small helpers
\* ------------------------------------------------------------------------

Min(a, b) == IF a < b THEN a ELSE b

Max(a, b) == IF a > b THEN a ELSE b

\* ------------------------------------------------------------------------
\* CompetitorTracker.analyze_competitors
\* ------------------------------------------------------------------------

\* competitor_domains[:5]: the slice bound of the task list.
CompetitorCap == 5

\* What one call of _analyze_single_site meets: its crawl returns pages, its
\* crawl returns no page (every fetch failed: _crawl_single_page turns a failed
\* fetch into a CrawlResult with error set, which crawl_website drops), or an
\* exception escapes the call (the crawler's link handling and the analysis
\* run outside any try block).
SiteEnvs == {"pages", "empty", "exception"}

\* The competitor lists of the model: n distinct domains 1..n, and the same
\* with the second entry repeating the first.
DomainLists ==
    {[i \in 1..n |-> i] : n \in 0..MaxDomains}
        \cup {[i \in 1..n |-> IF i = 2 THEN 1 ELSE i] : n \in 2..MaxDomains}

\* No outcome yet.
NoOutcome == [kind |-> "none", domain |-> 0, pages |-> 0]

\* _analyze_single_site: kind "raised" is an exception leaving the call,
\* kind "error" the returned dict {'error': ...} of an empty crawl, kind
\* "analysis" the returned analysis record; pages is len(crawl_results).
AnalyzeSingleSite(domain, env) ==
    IF env = "exception"
        THEN [kind |-> "raised", domain |-> domain, pages |-> 0]
        ELSE IF env = "empty"
            THEN [kind |-> "error", domain |-> domain, pages |-> 0]
            ELSE [kind |-> "analysis", domain |-> domain, pages |-> 1]

CompetitorTasksUncapped(domains) == domains

\* The domains for which a task is created: competitor_domains[:5].
CompetitorTasks(domains) == SubSeq(domains, 1, Min(Len(domains), CompetitorCap))

SemAlwaysFree(value) == TRUE

\* asyncio.Semaphore.acquire succeeds without waiting iff the counter is positive.
SemFree(value) == value > 0

ReturnExceptionsOff == FALSE

\* asyncio.gather(*tasks, return_exceptions=True): an exception of a task is
\* a result of gather like any other.
ReturnExceptions == TRUE

ResultSlotByCompletion(i, finished) == finished + 1

\* gather returns the results in the order of the tasks it was given: the
\* result of task i is entry i, whatever number of tasks finished before it.
ResultSlot(i, finished) == i

\* isinstance(result, Exception)
IsException(result) == result.kind = "raised"

RECURSIVE ZipCollect(_, _, _, _)
\* for domain, result in zip(competitor_domains, competitor_results):
\*     if not isinstance(result, Exception): competitor_analyses[domain] = result
\* from pair k on, into the dict acc.
ZipCollect(domains, results, k, acc) ==
    IF k > Min(Len(domains), Len(results))
        THEN acc
        ELSE ZipCollect(domains, results, k + 1,
                 IF IsException(results[k])
                     THEN acc
                     ELSE [d \in (DOMAIN acc) \cup {domains[k]} |->
                              IF d = domains[k] THEN results[k] ELSE acc[d]])

EmptyDict == [d \in {} |-> NoOutcome]

Finished == Cardinality({i \in DOMAIN task_state : task_state[i] = "done"})

Running == {i \in DOMAIN task_state : task_state[i] = "running"}

CmpInit ==
    /\ pc = "primary"
    /\ your_domain = 0
    /\ competitor_domains \in DomainLists
    /\ max_concurrent \in 1..MaxConcurrentLimit
    /\ your_analysis = NoOutcome
    /\ task_state = <<>>
    /\ sem_value = 0
    /\ competitor_results = <<>>
    /\ competitor_analyses = EmptyDict
    /\ out_of_order = FALSE

\* No analyze_competitors call.
CmpIdle ==
    /\ pc = "idle"
    /\ your_domain = 0
    /\ competitor_domains = <<>>
    /\ max_concurrent = 1
    /\ your_analysis = NoOutcome
    /\ task_state = <<>>
    /\ sem_value = 0
    /\ competitor_results = <<>>
    /\ competitor_analyses = EmptyDict
    /\ out_of_order = FALSE

\* The variables outside analyze_competitors.
not_cmp_vars == <<trend_vars, auth_vars, site_vars, score_vars, page_vars, ins_vars, crawl_vars>>

\* your_analysis = await self._analyze_single_site(your_domain, is_primary=True);
\* then the semaphore and the task list are created and gather starts the tasks.
AnalyzePrimary(env) ==
    /\ pc = "primary"
    /\ your_analysis' = AnalyzeSingleSite(your_domain, env)
    /\ IF IsException(your_analysis')
          THEN /\ pc' = "raised"
               /\ UNCHANGED <<task_state, sem_value, competitor_results>>
          ELSE /\ pc' = "gather"
               /\ task_state' = [i \in 1..Len(CompetitorTasks(competitor_domains)) |-> "waiting"]
               /\ competitor_results' = [i \in 1..Len(CompetitorTasks(competitor_domains)) |-> NoOutcome]
               /\ sem_value' = max_concurrent
    /\ UNCHANGED <<your_domain, competitor_domains, max_concurrent,
                   competitor_analyses, out_of_order>>
    /\ UNCHANGED not_cmp_vars

\* analyze_competitor(domain): async with semaphore (entered).
TaskAcquire(i) ==
    /\ pc = "gather"
    /\ i \in DOMAIN task_state
    /\ task_state[i] = "waiting"
    /\ SemFree(sem_value)
    /\ task_state' = [task_state EXCEPT ![i] = "running"]
    /\ sem_value' = sem_value - 1
    /\ UNCHANGED <<pc, your_domain, competitor_domains, max_concurrent, your_analysis,
                   competitor_results, competitor_analyses, out_of_order>>
    /\ UNCHANGED not_cmp_vars

\* analyze_competitor(domain): _analyze_single_site returns or raises, the
\* semaphore is released on the way out, gather records the outcome.
TaskFinish(i, env) ==
    /\ pc = "gather"
    /\ i \in DOMAIN task_state
    /\ task_state[i] = "running"
    /\ LET outcome == AnalyzeSingleSite(CompetitorTasks(competitor_domains)[i], env)
       IN  /\ competitor_results' =
                  [competitor_results EXCEPT ![ResultSlot(i, Finished)] = outcome]
           /\ pc' = IF IsException(outcome) /\ ~ReturnExceptions THEN "raised" ELSE pc
    /\ task_state' = [task_state EXCEPT ![i] = "done"]
    /\ sem_value' = sem_value + 1
    /\ out_of_order' = (out_of_order \/ \E j \in 1..(i - 1) : task_state[j] # "done")
    /\ UNCHANGED <<your_domain, competitor_domains, max_concurrent, your_analysis,
                   competitor_analyses>>
    /\ UNCHANGED not_cmp_vars

\* gather returns when every task is done; the results are collected into
\* competitor_analyses and analyze_competitors returns its dict.
GatherReturn ==
    /\ pc = "gather"
    /\ \A i \in DOMAIN task_state : task_state[i] = "done"
    /\ competitor_analyses' = ZipCollect(competitor_domains, competitor_results, 1, EmptyDict)
    /\ pc' = "done"
    /\ UNCHANGED <<your_domain, competitor_domains, max_concurrent, your_analysis,
                   task_state, sem_value, competitor_results, out_of_order>>
    /\ UNCHANGED not_cmp_vars

CmpNext ==
    \/ \E env \in SiteEnvs : AnalyzePrimary(env)
    \/ \E i \in 1..MaxDomains : TaskAcquire(i)
    \/ \E i \in 1..MaxDomains, env \in SiteEnvs : TaskFinish(i, env)
    \/ GatherReturn

\* ------------------------------------------------------------------------
\* PerformanceMonitor._analyze_trends
\* ------------------------------------------------------------------------

\* Longest stored history of one metric.
MaxHistory == 2

\* history[-7:]: the number of most recent points of the comparison window.
TrendWindowSize == 7

\* Stored metric values (column value REAL) of the model.
TrendValues == {0, 100, 120}

\* Freshly observed values of the model.
CurrentValues == {80, 110}

RECURSIVE SeqsUpTo(_, _)
\* The sequences over S of length at most n.
SeqsUpTo(S, n) ==
    IF n = 0
        THEN {<<>>}
        ELSE LET shorter == SeqsUpTo(S, n - 1)
             IN  shorter \cup {Append(h, v) : h \in {x \in shorter : Len(x) = n - 1}, v \in S}

Histories == SeqsUpTo(TrendValues, MaxHistory)

\* round(num / den, 0) for den > 0 as Python rounds: to nearest, ties to even.
RoundHalfEven(num, den) ==
    LET q == num \div den
        r == num % den
    IN  IF 2 * r < den THEN q
        ELSE IF 2 * r > den THEN q + 1
        ELSE IF q % 2 = 0 THEN q ELSE q + 1

Abs(x) == IF x < 0 THEN -x ELSE x

\* [point['value'] for point in history[-7:]]
RecentValues(history) ==
    SubSeq(history, Max(1, Len(history) - TrendWindowSize + 1), Len(history))

\* A block reads a trend off one point only.
HasTrendPointsFromOne(history) == Len(history) >= 1

\* len(ai_history) >= 2
HasTrendPoints(history) == Len(history) >= 2

\* The rankings block compares as the other blocks do.
RankingsNotInverse == FALSE

\* "up" if recent_values[-1] < recent_values[0] else "down"  # Inverse
RankingsInverse == TRUE

\* One of the three blocks of _analyze_trends, on the stored history of its
\* metric; inverse is TRUE for the rankings block only.  raised: the block
\* ends in ZeroDivisionError.  strength10 is round(trend_strength, 1) in tenths.
MetricTrend(history, inverse) ==
    IF HasTrendPoints(history)
        THEN LET recent_values == RecentValues(history)
                 first == recent_values[1]
                 last == recent_values[Len(recent_values)]
             IN  IF Len(recent_values) >= 2
                     THEN IF first = 0
                              THEN [raised |-> TRUE, direction |-> "none", strength10 |-> 0]
                              ELSE [raised |-> FALSE,
                                    direction |-> IF (IF inverse THEN last < first ELSE last > first)
                                                      THEN "up" ELSE "down",
                                    strength10 |-> RoundHalfEven(Abs(last - first) * 1000, first)]
                     ELSE [raised |-> FALSE, direction |-> "stable", strength10 |-> 0]
        ELSE [raised |-> FALSE, direction |-> "insufficient_data", strength10 |-> 0]

\* The entry of the trends dict built from one block.
TrendEntry(t, current_value) ==
    [direction |-> t.direction, strength10 |-> t.strength10, current_value |-> current_value]

\* _generate_performance_insights: the warning 'AI Citations Declining' is
\* among the insights.
AiCitationsDeclining(t) ==
    ~(t.ai_citations.direction = "up" /\ t.ai_citations.strength10 > 100)
    /\ t.ai_citations.direction = "down"

TrendIdle ==
    /\ trend_pc = "idle"
    /\ historical_data = <<>>
    /\ current_metrics = <<>>
    /\ trends = <<>>

TrendInit ==
    /\ trend_pc = "call"
    /\ historical_data \in [ai_citations : Histories, organic_sessions : Histories,
                            avg_position : Histories]
    /\ current_metrics \in [count : CurrentValues, sessions : CurrentValues,
                            avg_position : CurrentValues]
    /\ trends = <<>>

\* _analyze_trends(historical_data, current_metrics): the three blocks in
\* order; the first ZeroDivisionError ends the call.
AnalyzeTrends ==
    /\ trend_pc = "call"
    /\ LET ai == MetricTrend(historical_data.ai_citations, FALSE)
           traffic == MetricTrend(historical_data.organic_sessions, FALSE)
           ranking == MetricTrend(historical_data.avg_position, RankingsInverse)
       IN  IF ai.raised \/ traffic.raised \/ ranking.raised
               THEN /\ trend_pc' = "raised"
                    /\ trends' = trends
               ELSE /\ trend_pc' = "returned"
                    /\ trends' = [ai_citations |-> TrendEntry(ai, current_metrics.count),
                                  organic_traffic |-> TrendEntry(traffic, current_metrics.sessions),
                                  search_rankings |-> TrendEntry(ranking, current_metrics.avg_position)]
    /\ UNCHANGED <<historical_data, current_metrics>>
    /\ UNCHANGED <<cmp_vars, auth_vars, site_vars, score_vars, page_vars, ins_vars, crawl_vars>>

TrendNext == AnalyzeTrends


\* ------------------------------------------------------------------------
\* CompetitorTracker._analyze_authority_signals
\* ------------------------------------------------------------------------

\* Number of runs of the program.
NumRuns == 2

Runs == 1..NumRuns

\* Domain strings of the model.
AuthDomains == {"a.com", "b.com"}

\* Values hash() gives a str: a signed integer that is a function of the
\* string and of the hash key the interpreter draws when it starts (str
\* hashing is randomised per process unless PYTHONHASHSEED fixes the key).
HashValues == {-7, 3, 12345}

NoHash == [d \in AuthDomains |-> 0]

\* The dict _analyze_authority_signals builds from h = hash(domain).
AuthoritySignals(h) ==
    [domain_authority |-> RoundHalfEven(400 + (h % 100) * 6, 10),
     estimated_backlinks |-> (h % 10000) + 100,
     estimated_referring_domains |-> (h % 1000) + 50,
     content_freshness_score |-> (h * 13) % 100,
     social_signals |-> (h % 500) + 10,
     brand_mentions |-> (h % 200) + 5]

AuthIdle ==
    /\ started = {}
    /\ str_hash = [r \in Runs |-> NoHash]
    /\ authority_seen = {}

\* A run of the program starts: the interpreter fixes its str hash.
StartRun(r, h) ==
    /\ r \notin started
    /\ started' = started \cup {r}
    /\ str_hash' = [str_hash EXCEPT ![r] = h]
    /\ UNCHANGED authority_seen
    /\ UNCHANGED <<cmp_vars, trend_vars, site_vars, score_vars, page_vars, ins_vars, crawl_vars>>

\* _analyze_authority_signals(domain) in run r.
AnalyzeAuthoritySignals(r, domain) ==
    /\ r \in started
    /\ authority_seen' = authority_seen \cup
           {[run |-> r, domain |-> domain, signals |-> AuthoritySignals(str_hash[r][domain])]}
    /\ UNCHANGED <<started, str_hash>>
    /\ UNCHANGED <<cmp_vars, trend_vars, site_vars, score_vars, page_vars, ins_vars, crawl_vars>>

AuthNext ==
    \/ \E r \in Runs, h \in [AuthDomains -> HashValues] : StartRun(r, h)
    \/ \E r \in Runs, domain \in AuthDomains : AnalyzeAuthoritySignals(r, domain)


\* ------------------------------------------------------------------------
\* Strings that hold numbers: str() and int()
\* ------------------------------------------------------------------------

\* A string is a sequence of one-character strings.
DigitChars == <<"0", "1", "2", "3", "4", "5", "6", "7", "8", "9">>

DigitValue(c) == (CHOOSE k \in 1..10 : DigitChars[k] = c) - 1

IsDigits(s) == Len(s) > 0 /\ \A k \in 1..Len(s) : \E d \in 1..10 : DigitChars[d] = s[k]

RECURSIVE PyStr(_)
\* str(n) of an int.
PyStr(n) ==
    IF n < 0 THEN <<"-">> \o PyStr(-n)
    ELSE IF n < 10 THEN <<DigitChars[n + 1]>>
    ELSE Append(PyStr(n \div 10), DigitChars[(n % 10) + 1])

RECURSIVE DigitsValue(_)
DigitsValue(s) ==
    IF s = <<>> THEN 0
    ELSE 10 * DigitsValue(SubSeq(s, 1, Len(s) - 1)) + DigitValue(s[Len(s)])

\* int(s) accepts s: an optional sign and decimal digits.
IsIntLiteral(s) ==
    \/ IsDigits(s)
    \/ Len(s) > 1 /\ s[1] \in {"-", "+"} /\ IsDigits(Tail(s))

\* int(s) of a str that int() accepts.
PyInt(s) ==
    IF s[1] = "-" THEN -DigitsValue(Tail(s))
    ELSE IF s[1] = "+" THEN DigitsValue(Tail(s))
    ELSE DigitsValue(s)

\* ------------------------------------------------------------------------
\* HTML pages
\* ------------------------------------------------------------------------

\* A parsed page (a BeautifulSoup tree), as far as the extraction reads it:
\*   title      the page has a non-empty <title> element
\*   metas      its <meta name=... content=...> tags
\*   ld_json    the number of <script type="application/ld+json"> blocks
\*   headings   its h1..h6 elements in document order; boilerplate: the
\*              heading is inside a header, nav, footer or aside element
\*   toc_div    div elements with a table-of-contents class
\*   toc_nav    nav elements with a table-of-contents class
\*   sections   section/article/div elements with a content class
\*   text       what the regular expressions find in the extracted text
Heading(level, boilerplate) == [level |-> level, boilerplate |-> boilerplate]

\* Some text that is no number.
SomeText == <<"t", "e", "x", "t">>

NoText == [words |-> 0, wh_questions |-> 0, aux_questions |-> 0, faq_indicators |-> 0,
           answer_patterns |-> 0, list_patterns |-> 0]

\* BeautifulSoup(text, 'html.parser') of extracted text: text and no element.
ParseText(text) ==
    [title |-> FALSE, metas |-> {}, ld_json |-> 0, headings |-> <<>>,
     toc_div |-> 0, toc_nav |-> 0, sections |-> 0, text |-> text]

OfLevel(headings, i) == SelectSeq(headings, LAMBDA h : h.level = i)

\* soup.find_all('h1'), ..., soup.find_all('h6'), one after the other.
HeadingsByLevel(headings) ==
    OfLevel(headings, 1) \o OfLevel(headings, 2) \o OfLevel(headings, 3)
        \o OfLevel(headings, 4) \o OfLevel(headings, 5) \o OfLevel(headings, 6)

\* for element in soup(['script', 'style']): element.decompose()
DecomposeScripts(soup) == [soup EXCEPT !.ld_json = 0]

\* for element in soup(['script', 'style', 'nav', 'header', 'footer', 'aside']):
\*     element.decompose()
DecomposeNonContent(soup) ==
    [soup EXCEPT !.ld_json = 0,
                 !.headings = SelectSeq(soup.headings, LAMBDA h : ~h.boilerplate),
                 !.toc_nav = 0]

\* ------------------------------------------------------------------------
\* WebCrawler: the extraction of one fetched page
\* ------------------------------------------------------------------------

HeadingCountKeys == <<"h1_count", "h2_count", "h3_count", "h4_count", "h5_count", "h6_count">>

EmptyMetaData == [k \in {} |-> <<>>]

\* dict update: the entries of g override those of f.
DictUpdate(f, g) ==
    [k \in (DOMAIN f) \cup (DOMAIN g) |-> IF k \in DOMAIN g THEN g[k] ELSE f[k]]

\* _extract_meta_data(soup): the named meta tags, then structured_data_count
\* if the soup holds ld+json scripts, then hN_count for every level that has
\* headings (hN_first is not modelled: only content_topics reads it).
ExtractMetaData(soup) ==
    LET from_tags == [k \in {m.name : m \in soup.metas} |->
                         (CHOOSE m \in soup.metas : m.name = k).content]
        from_schema == IF soup.ld_json > 0
                           THEN [k \in {"structured_data_count"} |-> PyStr(soup.ld_json)]
                           ELSE EmptyMetaData
        levels == {i \in 1..6 : Len(OfLevel(soup.headings, i)) > 0}
        from_headings == [k \in {HeadingCountKeys[i] : i \in levels} |->
                             PyStr(Len(OfLevel(soup.headings,
                                   CHOOSE i \in levels : HeadingCountKeys[i] = k)))]
    IN  DictUpdate(DictUpdate(from_tags, from_schema), from_headings)

\* _crawl_single_page on a page that was fetched: title, then the text
\* (which removes the script and style elements from the soup), then the
\* meta data of what is left of the soup.
CrawlSinglePage(page) ==
    LET soup == page.html
        after_text == DecomposeScripts(soup)
    IN  [title |-> soup.title,
         content |-> soup.text,
         meta_data |-> ExtractMetaData(after_text),
         load_time |-> page.load_time]

\* crawl_website: the CrawlResult of every page fetched, in order.
CrawlWebsite(pages) == [k \in 1..Len(pages) |-> CrawlSinglePage(pages[k])]

\* ------------------------------------------------------------------------
\* ContentAnalyzer
\* ------------------------------------------------------------------------

\* The FAQ points are given per indicator.
CalculateAiScorePerFaq(questions, faq_indicators, schemas, answer_patterns, list_patterns) ==
    LET score == Min(questions * 5, 30)
                 + 20 * faq_indicators
                 + Min(schemas * 8, 25)
                 + Min(answer_patterns * 3, 15)
                 + Min(list_patterns * 2, 10)
    IN  Min(score, 100)

\* _calculate_ai_score
CalculateAiScore(questions, faq_indicators, schemas, answer_patterns, list_patterns) ==
    LET score == Min(questions * 5, 30)
                 + (IF faq_indicators > 0 THEN 20 ELSE 0)
                 + Min(schemas * 8, 25)
                 + Min(answer_patterns * 3, 15)
                 + Min(list_patterns * 2, 10)
    IN  Min(score, 100)

\* _analyze_heading_hierarchy: the headings are gathered level by level, and
\* the jumps are looked for between neighbours of that list.
AnalyzeHeadingHierarchy(soup) ==
    LET headings == HeadingsByLevel(soup.headings)
    IN  [total_headings |-> Len(headings),
         hierarchy_issues |-> Cardinality({k \in 1..(Len(headings) - 1) :
                                  headings[k + 1].level > headings[k].level + 1}),
         has_h1 |-> \E k \in 1..Len(headings) : headings[k].level = 1,
         multiple_h1 |-> Len(OfLevel(headings, 1)) > 1]

\* The bonus is never given.
CalculateStructureScoreNoBonus(heading_hierarchy, toc_count, sections) ==
    LET s1 == IF heading_hierarchy.has_h1 /\ ~heading_hierarchy.multiple_h1 THEN 15 ELSE 0
        s2 == s1 + (IF heading_hierarchy.total_headings >= 3 THEN 15 ELSE 0)
        s3 == s2 + (IF heading_hierarchy.hierarchy_issues = 0 THEN 10 ELSE 0)
        s4 == s3 + (IF toc_count > 0 THEN 20 ELSE 0)
        s5 == s4 + (IF sections >= 3 THEN 20 ELSE IF sections >= 1 THEN 10 ELSE 0)
    IN  Min(s5, 100)

\* The single-H1 points are given only when there is no hierarchy issue.
CalculateStructureScoreH1NeedsNoIssues(heading_hierarchy, toc_count, sections) ==
    LET s1 == IF /\ heading_hierarchy.has_h1 /\ ~heading_hierarchy.multiple_h1
                 /\ heading_hierarchy.hierarchy_issues = 0
                  THEN 15 ELSE 0
        s2 == s1 + (IF heading_hierarchy.total_headings >= 3 THEN 15 ELSE 0)
        s3 == s2 + (IF heading_hierarchy.hierarchy_issues = 0 THEN 10 ELSE 0)
        s4 == s3 + (IF toc_count > 0 THEN 20 ELSE 0)
        s5 == s4 + (IF sections >= 3 THEN 20 ELSE IF sections >= 1 THEN 10 ELSE 0)
        s6 == s5 + (IF s5 >= 60 /\ heading_hierarchy.total_headings >= 5 THEN 20 ELSE 0)
    IN  Min(s6, 100)

\* _calculate_structure_score
CalculateStructureScore(heading_hierarchy, toc_count, sections) ==
    LET s1 == IF heading_hierarchy.has_h1 /\ ~heading_hierarchy.multiple_h1 THEN 15 ELSE 0
        s2 == s1 + (IF heading_hierarchy.total_headings >= 3 THEN 15 ELSE 0)
        s3 == s2 + (IF heading_hierarchy.hierarchy_issues = 0 THEN 10 ELSE 0)
        s4 == s3 + (IF toc_count > 0 THEN 20 ELSE 0)
        s5 == s4 + (IF sections >= 3 THEN 20 ELSE IF sections >= 1 THEN 10 ELSE 0)
        s6 == s5 + (IF s5 >= 60 /\ heading_hierarchy.total_headings >= 5 THEN 20 ELSE 0)
    IN  Min(s6, 100)

\* The H1 points are given for any number of H1s above zero.
CalculateOverallScoreAnyH1(word_count, title_length, meta_length, h1_count, ai_score, structure_score) ==
    LET words == IF 300 <= word_count /\ word_count <= 2500 THEN 25
                 ELSE IF word_count > 2500 THEN 20
                 ELSE IF word_count >= 100 THEN 15
                 ELSE 5
        seo_score == (IF title_length > 0 THEN 8 ELSE 0)
                     + (IF meta_length > 0 THEN 8 ELSE 0)
                     + (IF h1_count >= 1 THEN 9 ELSE 0)
    IN  RoundHalfEven((4 * (words + seo_score) + ai_score + structure_score) * 10, 4)

\* _calculate_overall_score, in tenths: round(sum(scores), 1) of the word
\* band, the SEO elements, ai score / 4 and structure score / 4.
CalculateOverallScore(word_count, title_length, meta_length, h1_count, ai_score, structure_score) ==
    LET words == IF 300 <= word_count /\ word_count <= 2500 THEN 25
                 ELSE IF word_count > 2500 THEN 20
                 ELSE IF word_count >= 100 THEN 15
                 ELSE 5
        seo_score == (IF title_length > 0 THEN 8 ELSE 0)
                     + (IF meta_length > 0 THEN 8 ELSE 0)
                     + (IF h1_count = 1 THEN 9 ELSE 0)
    IN  RoundHalfEven((4 * (words + seo_score) + ai_score + structure_score) * 10, 4)

\* analyze_content(html_content, url).  _extract_clean_text comes first and
\* removes the non-content elements from the soup every later step reads.
AnalyzeContent(html) ==
    LET soup == DecomposeNonContent(html)
        text == html.text
        questions == text.wh_questions + text.aux_questions
        ai_score == CalculateAiScore(questions, text.faq_indicators, soup.ld_json,
                                     text.answer_patterns, text.list_patterns)
        heading_hierarchy == AnalyzeHeadingHierarchy(soup)
        structure_score == CalculateStructureScore(heading_hierarchy,
                               soup.toc_div + soup.toc_nav, soup.sections)
        title_length == IF soup.title THEN 1 ELSE 0
        meta_length == IF \E m \in soup.metas : m.name = "description" /\ m.content # <<>>
                           THEN 1 ELSE 0
    IN  [word_count |-> text.words,
         question_count |-> questions,
         total_schemas |-> soup.ld_json,
         total_headings |-> heading_hierarchy.total_headings,
         hierarchy_issues |-> heading_hierarchy.hierarchy_issues,
         ai_optimization_score |-> ai_score,
         structure_score |-> structure_score,
         overall_score10 |-> CalculateOverallScore(text.words, title_length, meta_length,
                                 Len(OfLevel(soup.headings, 1)), ai_score, structure_score)]

\* ------------------------------------------------------------------------
\* CompetitorTracker: the analysis of one site
\* ------------------------------------------------------------------------

RECURSIVE SeqSum(_)
SeqSum(q) == IF q = <<>> THEN 0 ELSE q[1] + SeqSum(Tail(q))

\* int(meta_data.get(key, 0)) raises ValueError
IntGetRaises(meta_data, key) == key \in DOMAIN meta_data /\ ~IsIntLiteral(meta_data[key])

\* int(meta_data.get(key, 0))
IntGet(meta_data, key) == IF key \in DOMAIN meta_data THEN PyInt(meta_data[key]) ELSE 0

\* A quotient num / den, den > 0, is below (at least) the integer k.
Below(q, k) == q.num < k * q.den

AtLeast(q, k) == q.num >= k * q.den

\* Several H1s earn what a single H1 earns.
CalculateTechnicalScoreFlatH1(load_time, has_title, has_meta, schema_count, h1_count, total_headings) ==
    LET score == (IF Below(load_time, 2000) THEN 25 ELSE IF Below(load_time, 4000) THEN 15 ELSE 5)
                 + (IF has_title THEN 15 ELSE 0)
                 + (IF has_meta THEN 15 ELSE 0)
                 + Min(schema_count * 5, 20)
                 + (IF h1_count >= 1 THEN 15 ELSE 0)
                 + (IF total_headings >= 3 THEN 10 ELSE 0)
    IN  Min(score, 100)

\* _calculate_technical_score; load_time is a quotient of milliseconds, so
\* 2 and 4 seconds are 2000 and 4000.
CalculateTechnicalScore(load_time, has_title, has_meta, schema_count, h1_count, total_headings) ==
    LET score == (IF Below(load_time, 2000) THEN 25 ELSE IF Below(load_time, 4000) THEN 15 ELSE 5)
                 + (IF has_title THEN 15 ELSE 0)
                 + (IF has_meta THEN 15 ELSE 0)
                 + Min(schema_count * 5, 20)
                 + (IF h1_count = 1 THEN 15 ELSE IF h1_count > 1 THEN 5 ELSE 0)
                 + (IF total_headings >= 3 THEN 10 ELSE 0)
    IN  Min(score, 100)

\* _calculate_content_depth_score; avg_words is a quotient.
CalculateContentDepthScore(avg_words, questions, headings, pages) ==
    LET score == (IF AtLeast(avg_words, 1500) THEN 40
                  ELSE IF AtLeast(avg_words, 800) THEN 30
                  ELSE IF AtLeast(avg_words, 300) THEN 20
                  ELSE 10)
                 + Min(questions * 3, 30)
                 + Min(headings * 2, 20)
                 + Min(pages * 2, 10)
    IN  Min(score, 100)

\* _calculate_site_score, in tenths:
\* round(content_score * 0.4 + technical_score * 0.35 + ai_score * 0.25, 1),
\* where content_score is the home page's overall score (here in tenths).
CalculateSiteScore(content_score10, technical_score, ai_score) ==
    RoundHalfEven(content_score10 * 4 + technical_score * 35 + ai_score * 25, 10)

HeadingCounts(meta_data) == [i \in 1..6 |-> IntGet(meta_data, HeadingCountKeys[i])]

\* _analyze_technical_seo(crawl_results), crawl_results not empty.
AnalyzeTechnicalSeo(crawl_results) ==
    LET homepage == crawl_results[1]
        avg_load_time == [num |-> SeqSum([k \in 1..Len(crawl_results) |-> crawl_results[k].load_time]),
                          den |-> Len(crawl_results)]
        has_title == "title" \in DOMAIN homepage.meta_data /\ homepage.meta_data["title"] # <<>>
        has_meta_desc == "description" \in DOMAIN homepage.meta_data
        schema_count == IntGet(homepage.meta_data, "structured_data_count")
        heading_counts == HeadingCounts(homepage.meta_data)
    IN  [has_title_tag |-> has_title,
         has_meta_description |-> has_meta_desc,
         schema_markup_count |-> schema_count,
         pages_crawled |-> Len(crawl_results),
         technical_score |-> CalculateTechnicalScore(avg_load_time, has_title, has_meta_desc,
                                 schema_count, heading_counts[1], SeqSum(heading_counts))]

\* The questions and headings of the home page only are counted.
AnalyzeContentStrategyHomeOnly(crawl_results) ==
    LET n == Len(crawl_results)
        total_words == SeqSum([k \in 1..n |-> crawl_results[k].content.words])
        total_questions == crawl_results[1].content.wh_questions
        total_headings == SeqSum(HeadingCounts(crawl_results[1].meta_data))
    IN  [total_pages_analyzed |-> n,
         total_questions |-> total_questions,
         total_headings |-> total_headings,
         content_depth_score |-> CalculateContentDepthScore([num |-> total_words, den |-> n],
                                     total_questions, total_headings, n)]

\* _analyze_content_strategy(crawl_results), crawl_results not empty.
AnalyzeContentStrategy(crawl_results) ==
    LET n == Len(crawl_results)
        total_words == SeqSum([k \in 1..n |-> crawl_results[k].content.words])
        total_questions == SeqSum([k \in 1..n |-> crawl_results[k].content.wh_questions])
        total_headings == SeqSum([k \in 1..n |-> SeqSum(HeadingCounts(crawl_results[k].meta_data))])
    IN  [total_pages_analyzed |-> n,
         total_questions |-> total_questions,
         total_headings |-> total_headings,
         content_depth_score |-> CalculateContentDepthScore([num |-> total_words, den |-> n],
                                     total_questions, total_headings, n)]

\* Some int() of _analyze_technical_seo or _analyze_content_strategy raises.
MetaDataRaises(crawl_results) ==
    \/ IntGetRaises(crawl_results[1].meta_data, "structured_data_count")
    \/ \E k \in 1..Len(crawl_results), i \in 1..6 :
           IntGetRaises(crawl_results[k].meta_data, HeadingCountKeys[i])

NoScores ==
    [technical_score |-> 0, content_depth_score |-> 0, ai_score |-> 0, structure_score |-> 0,
     page_overall_score10 |-> 0, overall_score10 |-> 0, has_title_tag |-> FALSE,
     has_meta_description |-> FALSE, schema_markup_count |-> 0, pages_crawled |-> 0]

\* _analyze_single_site from the crawl on: kind is "error" for the dict
\* {'error': ...}, "raised" for an exception, "analysis" for the record.
SiteAnalysisOf(pages) ==
    LET crawl_results == CrawlWebsite(pages)
    IN  IF crawl_results = <<>>
            THEN [kind |-> "error", scores |-> NoScores]
        ELSE IF MetaDataRaises(crawl_results)
            THEN [kind |-> "raised", scores |-> NoScores]
        ELSE LET content_analysis == AnalyzeContent(ParseText(crawl_results[1].content))
                 technical_analysis == AnalyzeTechnicalSeo(crawl_results)
                 content_strategy == AnalyzeContentStrategy(crawl_results)
                 ai_score == content_analysis.ai_optimization_score
             IN  [kind |-> "analysis",
                  scores |->
                     [technical_score |-> technical_analysis.technical_score,
                      content_depth_score |-> content_strategy.content_depth_score,
                      ai_score |-> ai_score,
                      structure_score |-> content_analysis.structure_score,
                      page_overall_score10 |-> content_analysis.overall_score10,
                      overall_score10 |-> CalculateSiteScore(content_analysis.overall_score10,
                                              technical_analysis.technical_score, ai_score),
                      has_title_tag |-> technical_analysis.has_title_tag,
                      has_meta_description |-> technical_analysis.has_meta_description,
                      schema_markup_count |-> technical_analysis.schema_markup_count,
                      pages_crawled |-> technical_analysis.pages_crawled]]

\* The pages of the model.
MetaUniverse ==
    {[name |-> "title", content |-> SomeText],
     [name |-> "description", content |-> SomeText],
     [name |-> "structured_data_count", content |-> PyStr(-30)]}

SchemaCounts == {0, 2}

HeadingDocs ==
    {<<>>,
     <<Heading(1, FALSE)>>,
     <<Heading(2, FALSE), Heading(2, FALSE), Heading(2, FALSE), Heading(2, FALSE)>>,
     <<Heading(1, FALSE), Heading(1, FALSE), Heading(2, FALSE)>>,
     <<Heading(1, TRUE), Heading(2, FALSE), Heading(2, FALSE)>>,
     <<Heading(1, FALSE), Heading(2, FALSE), Heading(4, FALSE), Heading(3, FALSE), Heading(2, FALSE)>>}

Texts ==
    [words : {50, 400, 1600}, wh_questions : {0, 10}, aux_questions : {0, 2},
     faq_indicators : {0, 1}, answer_patterns : {0, 5}, list_patterns : {0, 5}]

\* Load times in milliseconds.
LoadTimes == {1500, 3000, 5000}

HomePages ==
    [html : [title : BOOLEAN, metas : SUBSET MetaUniverse, ld_json : SchemaCounts,
             headings : HeadingDocs, toc_div : {0}, toc_nav : {0}, sections : {0},
             text : Texts],
     load_time : LoadTimes]

\* The page every further page of a site is a copy of.
InnerPage ==
    [html |-> [title |-> TRUE, metas |-> {}, ld_json |-> 0,
               headings |-> <<Heading(1, FALSE), Heading(2, FALSE)>>,
               toc_div |-> 0, toc_nav |-> 0, sections |-> 0,
               text |-> [words |-> 2000, wh_questions |-> 1, aux_questions |-> 0,
                         faq_indicators |-> 0, answer_patterns |-> 0, list_patterns |-> 0]],
     load_time |-> 5000]

\* Pages crawled besides the home page (max_pages is 5).
ExtraPageCounts == {0, 4}

Crawls ==
    {<<>>} \cup {<<home>> \o [k \in 1..n |-> InnerPage] : home \in HomePages, n \in ExtraPageCounts}

NoSiteAnalysis == [kind |-> "none", scores |-> NoScores]

SiteIdle ==
    /\ site_pc = "idle"
    /\ fetched = <<>>
    /\ site_analysis = NoSiteAnalysis

SiteInit ==
    /\ site_pc = "crawl"
    /\ fetched \in Crawls
    /\ site_analysis = NoSiteAnalysis

\* _analyze_single_site: the crawl, then the analysis of what was crawled.
AnalyzeSite ==
    /\ site_pc = "crawl"
    /\ site_analysis' = SiteAnalysisOf(fetched)
    /\ site_pc' = "done"
    /\ UNCHANGED fetched
    /\ UNCHANGED <<cmp_vars, trend_vars, auth_vars, score_vars, page_vars, ins_vars, crawl_vars>>

SiteNext == AnalyzeSite

\* ------------------------------------------------------------------------
\* The score functions, each called on its own arguments
\* ------------------------------------------------------------------------

\* Arguments of _calculate_technical_score: the load time is in
\* milliseconds; schema_count is what int() read from the meta data, which
\* a page's own meta tag can make negative.
TechnicalCalls ==
    [fn : {"_calculate_technical_score"},
     load_time : {1500, 2000, 3999, 4000, 5000},
     has_title : BOOLEAN, has_meta : BOOLEAN,
     schema_count : {-30, 0, 1, 4, 5},
     h1 : {0, 1, 2}, h2 : {0, 2, 4}]

\* Arguments of _calculate_ai_score.
AiCalls ==
    [fn : {"_calculate_ai_score"},
     questions : {0, 2, 6, 7}, faq_indicators : {0, 1, 2}, schemas : {0, 2, 4},
     answer_patterns : {0, 3, 5, 6}, list_patterns : {0, 3, 5, 6}]

\* Arguments of _calculate_structure_score: a heading_hierarchy dict as
\* _analyze_heading_hierarchy builds it (total_headings headings, of which
\* h1_count are H1), toc_count and sections.
StructureCalls ==
    {c \in [fn : {"_calculate_structure_score"},
            h1_count : {0, 1, 2}, total_headings : {0, 1, 2, 3, 4, 5, 8},
            hierarchy_issues : {0, 1, 2}, toc_count : {0, 1, 2},
            sections : {0, 1, 2, 3, 5}] :
        /\ c.h1_count <= c.total_headings
        /\ c.hierarchy_issues <= Max(c.total_headings - 1, 0)}

\* Arguments of _calculate_overall_score: the fields it reads.
OverallCalls ==
    [fn : {"_calculate_overall_score"},
     word_count : {50, 99, 100, 299, 300, 2500, 2501},
     title_length : {0, 12}, meta_length : {0, 20}, h1_count : {0, 1, 2},
     ai_score : {0, 21, 72, 100}, structure_score : {0, 10, 25, 80, 100}]

NoCall == [fn |-> "none"]

ScoreIdle ==
    /\ score_pc = "idle"
    /\ score_call = NoCall
    /\ score_result = 0

ScoreInit ==
    /\ score_pc = "call"
    /\ score_call \in TechnicalCalls \cup AiCalls \cup StructureCalls \cup OverallCalls
    /\ score_result = 0

not_score_vars == <<cmp_vars, trend_vars, auth_vars, site_vars, page_vars, ins_vars, crawl_vars>>

\* _calculate_technical_score(load_time, has_title, has_meta, schema_count, headings)
CallTechnicalScore ==
    /\ score_pc = "call"
    /\ score_call.fn = "_calculate_technical_score"
    /\ score_result' = CalculateTechnicalScore([num |-> score_call.load_time, den |-> 1],
                           score_call.has_title, score_call.has_meta, score_call.schema_count,
                           score_call.h1, score_call.h1 + score_call.h2)
    /\ score_pc' = "returned"
    /\ UNCHANGED score_call
    /\ UNCHANGED not_score_vars

\* _calculate_ai_score(questions, faq_indicators, schemas, answer_patterns, list_patterns)
CallAiScore ==
    /\ score_pc = "call"
    /\ score_call.fn = "_calculate_ai_score"
    /\ score_result' = CalculateAiScore(score_call.questions, score_call.faq_indicators,
                           score_call.schemas, score_call.answer_patterns,
                           score_call.list_patterns)
    /\ score_pc' = "returned"
    /\ UNCHANGED score_call
    /\ UNCHANGED not_score_vars

\* _calculate_structure_score(heading_hierarchy, toc_count, sections)
CallStructureScore ==
    /\ score_pc = "call"
    /\ score_call.fn = "_calculate_structure_score"
    /\ score_result' = CalculateStructureScore(
                           [total_headings |-> score_call.total_headings,
                            hierarchy_issues |-> score_call.hierarchy_issues,
                            has_h1 |-> score_call.h1_count >= 1,
                            multiple_h1 |-> score_call.h1_count > 1],
                           score_call.toc_count, score_call.sections)
    /\ score_pc' = "returned"
    /\ UNCHANGED score_call
    /\ UNCHANGED not_score_vars

\* _calculate_overall_score(basic_metrics, seo_elements, ai_readiness, structure);
\* the result is in tenths.
CallOverallScore ==
    /\ score_pc = "call"
    /\ score_call.fn = "_calculate_overall_score"
    /\ score_result' = CalculateOverallScore(score_call.word_count, score_call.title_length,
                           score_call.meta_length, score_call.h1_count,
                           score_call.ai_score, score_call.structure_score)
    /\ score_pc' = "returned"
    /\ UNCHANGED score_call
    /\ UNCHANGED not_score_vars

ScoreNext ==
    \/ CallTechnicalScore
    \/ CallAiScore
    \/ CallStructureScore
    \/ CallOverallScore

\* ------------------------------------------------------------------------
\* One HTML page, handed to analyze_content or fetched by the crawler
\* ------------------------------------------------------------------------

PageHeadingDocs ==
    HeadingDocs \cup
    {<<Heading(2, FALSE), Heading(4, FALSE), Heading(3, FALSE)>>,
     <<Heading(3, FALSE), Heading(1, FALSE)>>,
     <<Heading(1, FALSE), Heading(2, TRUE), Heading(3, TRUE)>>}

PageTexts ==
    [words : {50, 400}, wh_questions : {0, 2}, aux_questions : {0}, faq_indicators : {0, 1},
     answer_patterns : {0}, list_patterns : {0}]

PageDocs ==
    [title : BOOLEAN,
     metas : SUBSET {[name |-> "description", content |-> SomeText]},
     ld_json : SchemaCounts, headings : PageHeadingDocs,
     toc_div : {0, 1}, toc_nav : {0, 1}, sections : {0, 3}, text : PageTexts]

\* The load time of the page, in milliseconds.
PageLoadTimes == {1500}

PageIdle ==
    /\ page_pc = "idle"
    /\ page_html = ParseText(NoText)
    /\ page_result = <<>>

PageInit ==
    /\ page_pc = "call"
    /\ page_html \in PageDocs
    /\ page_result = <<>>

not_page_vars == <<cmp_vars, trend_vars, auth_vars, site_vars, score_vars, ins_vars, crawl_vars>>

\* ContentAnalyzer.analyze_content(html_content)
AnalyzeContentCall ==
    /\ page_pc = "call"
    /\ page_result' = AnalyzeContent(page_html)
    /\ page_pc' = "analyzed"
    /\ UNCHANGED page_html
    /\ UNCHANGED not_page_vars

\* WebCrawler._crawl_single_page(url) when the page is fetched
CrawlSinglePageCall ==
    /\ page_pc = "call"
    /\ \E load_time \in PageLoadTimes :
           page_result' = CrawlSinglePage([html |-> page_html, load_time |-> load_time])
    /\ page_pc' = "crawled"
    /\ UNCHANGED page_html
    /\ UNCHANGED not_page_vars

PageNext ==
    \/ AnalyzeContentCall
    \/ CrawlSinglePageCall

\* ------------------------------------------------------------------------
\* CompetitorTracker: insights and recommendations
\* ------------------------------------------------------------------------

\* The most entries competitor_analyses has in the model.
MaxCompetitors == 2

\* The dict {'error': ...} of a site no page of which was crawled.
ErrorDict == [kind |-> "error", ai_score |-> 0, content_score |-> 0, technical_score |-> 0]

\* Site analyses of competitors, as far as _extract_scores reads them.
CompetitorAnalyses ==
    [kind : {"analysis"}, ai_score : {20, 60, 61}, content_score : {25, 55, 56},
     technical_score : {30, 50}] \cup {ErrorDict}

\* Site analyses of the primary site.
YourAnalyses ==
    [kind : {"analysis"}, ai_score : {40}, content_score : {40},
     technical_score : {30, 40, 50}] \cup {ErrorDict}

\* _extract_scores(analysis): every score missing from the dict reads 0.
ExtractScores(analysis) ==
    IF analysis.kind = "analysis"
        THEN [ai_score |-> analysis.ai_score, content_score |-> analysis.content_score,
              technical_score |-> analysis.technical_score]
        ELSE [ai_score |-> 0, content_score |-> 0, technical_score |-> 0]

RECURSIVE SeqMax(_)
\* max(values) of a list that is not empty
SeqMax(q) == IF Len(q) = 1 THEN q[1] ELSE Max(q[1], SeqMax(Tail(q)))

\* An opportunity at a difference of exactly 20 too.
AiOpportunityAtLeast(score, your_ai_score) == score >= your_ai_score + 20

\* scores.get('ai_score', 0) > your_ai_score + 20
AiOpportunity(score, your_ai_score) == score > your_ai_score + 20

\* scores.get('content_score', 0) > your_content_score + 15
ContentOpportunity(score, your_content_score) == score > your_content_score + 15

\* An advantage at equality too.
TechAdvantageOrEqual(your_tech_score, sum, n) == your_tech_score * n >= sum

\* your_tech_score > avg_competitor_tech, the average being sum / n
TechAdvantage(your_tech_score, sum, n) == your_tech_score * n > sum

\* your_content_score < avg_competitor_content
ContentGap(your_content_score, sum, n) == your_content_score * n < sum

NoComparison ==
    [present |-> FALSE, your_score |-> 0, competitor_average10 |-> 0, best_competitor |-> 0,
     performance |-> "none"]

EmptyInsights ==
    [content_gaps |-> <<>>, technical_advantages |-> <<>>, technical_disadvantages |-> <<>>,
     ai_readiness_comparison |-> NoComparison, opportunity_areas |-> <<>>]

RECURSIVE OpportunityAreas(_, _, _, _)
\* The loop over competitor_scores.items() from entry k on.
OpportunityAreas(competitor_scores, k, your_ai_score, your_content_score) ==
    IF k > Len(competitor_scores)
        THEN <<>>
        ELSE (IF AiOpportunity(competitor_scores[k].ai_score, your_ai_score)
                  THEN <<[area |-> "AI optimization", domain |-> k]>> ELSE <<>>)
             \o (IF ContentOpportunity(competitor_scores[k].content_score, your_content_score)
                  THEN <<[area |-> "Content strategy", domain |-> k]>> ELSE <<>>)
             \o OpportunityAreas(competitor_scores, k + 1, your_ai_score, your_content_score)

\* _generate_competitive_insights(your_analysis, competitor_analyses); the
\* averages are kept as sum and count, a message as the numbers it shows.
GenerateCompetitiveInsights(yours, competitors) ==
    IF competitors = <<>>
        THEN EmptyInsights
        ELSE
    LET your_scores == ExtractScores(yours)
        n == Len(competitors)
        competitor_scores == [k \in 1..n |-> ExtractScores(competitors[k])]
        ai_sum == SeqSum([k \in 1..n |-> competitor_scores[k].ai_score])
        content_sum == SeqSum([k \in 1..n |-> competitor_scores[k].content_score])
        tech_sum == SeqSum([k \in 1..n |-> competitor_scores[k].technical_score])
        message(score, sum) == [your_score |-> score, sum |-> sum, count |-> n]
    IN  [ai_readiness_comparison |->
             [present |-> TRUE,
              your_score |-> your_scores.ai_score,
              competitor_average10 |-> RoundHalfEven(ai_sum * 10, n),
              best_competitor |-> SeqMax([k \in 1..n |-> competitor_scores[k].ai_score]),
              performance |-> IF your_scores.ai_score * n > ai_sum
                                  THEN "above average" ELSE "below average"],
         content_gaps |->
             IF ContentGap(your_scores.content_score, content_sum, n)
                 THEN <<message(your_scores.content_score, content_sum)>> ELSE <<>>,
         technical_advantages |->
             IF TechAdvantage(your_scores.technical_score, tech_sum, n)
                 THEN <<message(your_scores.technical_score, tech_sum)>> ELSE <<>>,
         technical_disadvantages |->
             IF TechAdvantage(your_scores.technical_score, tech_sum, n)
                 THEN <<>> ELSE <<message(your_scores.technical_score, tech_sum)>>,
         opportunity_areas |->
             OpportunityAreas(competitor_scores, 1, your_scores.ai_score,
                              your_scores.content_score)]

\* Every opportunity gets a recommendation.
TopOpportunitiesAll(opportunity_areas) == opportunity_areas

\* insights.get('opportunity_areas', [])[:3]
TopOpportunities(opportunity_areas) ==
    SubSeq(opportunity_areas, 1, Min(Len(opportunity_areas), 3))

NoOpportunity == [area |-> "none", domain |-> 0]

Recommendation(category, priority, opportunity) ==
    [category |-> category, priority |-> priority, impact |-> priority,
     opportunity |-> opportunity]

\* _generate_competitive_recommendations(your_analysis, competitor_analyses, insights)
GenerateCompetitiveRecommendations(ins) ==
    LET top == TopOpportunities(ins.opportunity_areas)
    IN  (IF ins.ai_readiness_comparison.performance = "below average"
             THEN <<Recommendation("AI Optimization", "High", NoOpportunity)>> ELSE <<>>)
        \o (IF ins.content_gaps # <<>>
             THEN <<Recommendation("Content Strategy", "Medium", NoOpportunity)>> ELSE <<>>)
        \o (IF ins.technical_disadvantages # <<>>
             THEN <<Recommendation("Technical SEO", "High", NoOpportunity)>> ELSE <<>>)
        \o [k \in 1..Len(top) |-> Recommendation("Competitive Opportunity", "Medium", top[k])]

InsIdle ==
    /\ ins_pc = "idle"
    /\ ins_your_analysis = ErrorDict
    /\ ins_competitors = <<>>
    /\ insights = EmptyInsights
    /\ recommendations = <<>>

InsInit ==
    /\ ins_pc = "analyses"
    /\ ins_your_analysis \in YourAnalyses
    /\ ins_competitors \in SeqsUpTo(CompetitorAnalyses, MaxCompetitors)
    /\ insights = EmptyInsights
    /\ recommendations = <<>>

not_ins_vars == <<cmp_vars, trend_vars, auth_vars, site_vars, score_vars, page_vars, crawl_vars>>

\* analyze_competitors, line 42
GenerateInsights ==
    /\ ins_pc = "analyses"
    /\ insights' = GenerateCompetitiveInsights(ins_your_analysis, ins_competitors)
    /\ ins_pc' = "insights"
    /\ UNCHANGED <<ins_your_analysis, ins_competitors, recommendations>>
    /\ UNCHANGED not_ins_vars

\* analyze_competitors, line 45
GenerateRecommendations ==
    /\ ins_pc = "insights"
    /\ recommendations' = GenerateCompetitiveRecommendations(insights)
    /\ ins_pc' = "done"
    /\ UNCHANGED <<ins_your_analysis, ins_competitors, insights>>
    /\ UNCHANGED not_ins_vars

InsNext ==
    \/ GenerateInsights
    \/ GenerateRecommendations

\* ------------------------------------------------------------------------
\* WebCrawler.crawl_website
\* ------------------------------------------------------------------------

\* The URLs of the site; StartUrl is start_url.
Urls == {1, 2, 3, 4}

StartUrl == 1

\* result.links of a page, as far as they are internal.
LinkLists == {<<>>, <<2, 3>>, <<4>>, <<1, 4>>}

MaxPagesChoices == {2, 3, 5}

ConcurrencyChoices == {1, 2}

\* urls_to_crawl.extend(internal_links[:5])
LinksPerPageCap == 5

RECURSIVE TasksOf(_, _)
\* [self._crawl_single_page(url, semaphore) for url in current_batch
\*  if url not in self.visited_urls]
TasksOf(current_batch, visited) ==
    IF current_batch = <<>>
        THEN <<>>
        ELSE (IF Head(current_batch) \in visited
                  THEN <<>> ELSE <<[url |-> Head(current_batch), state |-> "created"]>>)
             \o TasksOf(Tail(current_batch), visited)

\* internal_links[:5] of one result
NewLinks(url, links, visited) ==
    LET internal_links == SelectSeq(links[url], LAMBDA link : link \notin visited)
    IN  SubSeq(internal_links, 1, Min(Len(internal_links), LinksPerPageCap))

RECURSIVE CollectBatch(_, _, _, _, _)
\* for result in batch_results: ..., from task k on; acc holds results,
\* crawled_count and urls_to_crawl.
CollectBatch(tasks, k, links, visited, acc) ==
    IF k > Len(tasks)
        THEN acc
        ELSE CollectBatch(tasks, k + 1, links, visited,
                 IF tasks[k].state = "ok"
                     THEN [results |-> Append(acc.results, tasks[k].url),
                           crawled_count |-> acc.crawled_count + 1,
                           urls_to_crawl |-> acc.urls_to_crawl
                                                 \o NewLinks(tasks[k].url, links, visited)]
                     ELSE acc)

CrawlIdle ==
    /\ crawl_pc = "idle"
    /\ site_links = <<>>
    /\ max_pages = 0
    /\ crawler_concurrent = 0
    /\ urls_to_crawl = <<>>
    /\ visited_urls = {}
    /\ page_results = <<>>
    /\ crawled_count = 0
    /\ batch_tasks = <<>>
    /\ requests = <<>>

CrawlInit ==
    /\ crawl_pc = "loop"
    /\ site_links \in [Urls -> LinkLists]
    /\ max_pages \in MaxPagesChoices
    /\ crawler_concurrent \in ConcurrencyChoices
    /\ urls_to_crawl = <<StartUrl>>
    /\ visited_urls = {}
    /\ page_results = <<>>
    /\ crawled_count = 0
    /\ batch_tasks = <<>>
    /\ requests = [u \in Urls |-> 0]

not_crawl_vars ==
    <<cmp_vars, trend_vars, auth_vars, site_vars, score_vars, page_vars, ins_vars>>

\* One turn of the while loop up to gather: the batch is cut off the queue
\* and its tasks are created; no task at all ends the loop.
StartBatch ==
    /\ crawl_pc = "loop"
    /\ urls_to_crawl # <<>> /\ crawled_count < max_pages
    /\ LET batch_size == Min(Min(crawler_concurrent, Len(urls_to_crawl)),
                             max_pages - crawled_count)
           current_batch == SubSeq(urls_to_crawl, 1, batch_size)
           tasks == TasksOf(current_batch, visited_urls)
       IN  /\ urls_to_crawl' = SubSeq(urls_to_crawl, batch_size + 1, Len(urls_to_crawl))
           /\ batch_tasks' = tasks
           /\ crawl_pc' = IF tasks = <<>> THEN "done" ELSE "batch"
    /\ UNCHANGED <<site_links, max_pages, crawler_concurrent, visited_urls, page_results,
                   crawled_count, requests>>
    /\ UNCHANGED not_crawl_vars

\* _crawl_single_page up to its await: the semaphore is taken, the URL is
\* marked visited and requested.  Tasks start in the order of their creation.
TaskRequest(i) ==
    /\ crawl_pc = "batch"
    /\ i \in 1..Len(batch_tasks)
    /\ batch_tasks[i].state = "created"
    /\ \A j \in 1..(i - 1) : batch_tasks[j].state # "created"
    /\ Cardinality({j \in 1..Len(batch_tasks) : batch_tasks[j].state = "requested"})
           < crawler_concurrent
    /\ visited_urls' = visited_urls \cup {batch_tasks[i].url}
    /\ requests' = [requests EXCEPT ![batch_tasks[i].url] = @ + 1]
    /\ batch_tasks' = [batch_tasks EXCEPT ![i].state = "requested"]
    /\ UNCHANGED <<crawl_pc, site_links, max_pages, crawler_concurrent, urls_to_crawl,
                   page_results, crawled_count>>
    /\ UNCHANGED not_crawl_vars

\* The rest of _crawl_single_page: the response arrives and a CrawlResult is
\* returned (ok), or an exception gives a CrawlResult with an error.
TaskResponse(i, ok) ==
    /\ crawl_pc = "batch"
    /\ i \in 1..Len(batch_tasks)
    /\ batch_tasks[i].state = "requested"
    /\ batch_tasks' = [batch_tasks EXCEPT ![i].state = IF ok THEN "ok" ELSE "failed"]
    /\ UNCHANGED <<crawl_pc, site_links, max_pages, crawler_concurrent, urls_to_crawl,
                   visited_urls, page_results, crawled_count, requests>>
    /\ UNCHANGED not_crawl_vars

\* gather returns; the results are collected and the links queued.
CollectResults ==
    /\ crawl_pc = "batch"
    /\ \A j \in 1..Len(batch_tasks) : batch_tasks[j].state \in {"ok", "failed"}
    /\ LET acc == CollectBatch(batch_tasks, 1, site_links, visited_urls,
                      [results |-> page_results, crawled_count |-> crawled_count,
                       urls_to_crawl |-> urls_to_crawl])
       IN  /\ page_results' = acc.results
           /\ crawled_count' = acc.crawled_count
           /\ urls_to_crawl' = acc.urls_to_crawl
    /\ batch_tasks' = <<>>
    /\ crawl_pc' = "loop"
    /\ UNCHANGED <<site_links, max_pages, crawler_concurrent, visited_urls, requests>>
    /\ UNCHANGED not_crawl_vars

\* The while condition fails: return results.
ReturnResults ==
    /\ crawl_pc = "loop"
    /\ ~(urls_to_crawl # <<>> /\ crawled_count < max_pages)
    /\ crawl_pc' = "done"
    /\ UNCHANGED <<site_links, max_pages, crawler_concurrent, urls_to_crawl, visited_urls,
                   page_results, crawled_count, batch_tasks, requests>>
    /\ UNCHANGED not_crawl_vars

CrawlNext ==
    \/ StartBatch
    \/ \E i \in 1..Len(batch_tasks) : TaskRequest(i)
    \/ \E i \in 1..Len(batch_tasks), ok \in BOOLEAN : TaskResponse(i, ok)
    \/ CollectResults
    \/ ReturnResults

\* ------------------------------------------------------------------------
\* The specifications
\* ------------------------------------------------------------------------

Init == CmpInit /\ TrendIdle /\ AuthIdle /\ SiteIdle /\ ScoreIdle /\ PageIdle /\ InsIdle /\ CrawlIdle

Next == CmpNext

Spec == Init /\ [][Next]_vars

InitTrend == CmpIdle /\ TrendInit /\ AuthIdle /\ SiteIdle /\ ScoreIdle /\ PageIdle /\ InsIdle /\ CrawlIdle

SpecTrend == InitTrend /\ [][TrendNext]_vars

InitAuthority == CmpIdle /\ TrendIdle /\ AuthIdle /\ SiteIdle /\ ScoreIdle /\ PageIdle /\ InsIdle /\ CrawlIdle

SpecAuthority == InitAuthority /\ [][AuthNext]_vars

InitSite == CmpIdle /\ TrendIdle /\ AuthIdle /\ SiteInit /\ ScoreIdle /\ PageIdle /\ InsIdle /\ CrawlIdle

SpecSite == InitSite /\ [][SiteNext]_vars

InitScores == CmpIdle /\ TrendIdle /\ AuthIdle /\ SiteIdle /\ ScoreInit /\ PageIdle /\ InsIdle /\ CrawlIdle

SpecScores == InitScores /\ [][ScoreNext]_vars

InitPage == CmpIdle /\ TrendIdle /\ AuthIdle /\ SiteIdle /\ ScoreIdle /\ PageInit /\ InsIdle /\ CrawlIdle

SpecPage == InitPage /\ [][PageNext]_vars

InitInsights == CmpIdle /\ TrendIdle /\ AuthIdle /\ SiteIdle /\ ScoreIdle /\ PageIdle /\ InsInit /\ CrawlIdle

SpecInsights == InitInsights /\ [][InsNext]_vars

InitCrawl == CmpIdle /\ TrendIdle /\ AuthIdle /\ SiteIdle /\ ScoreIdle /\ PageIdle /\ InsIdle /\ CrawlInit

SpecCrawl == InitCrawl /\ [][CrawlNext]_vars

\* ------------------------------------------------------------------------
\* Properties of analyze_competitors
\* ------------------------------------------------------------------------

\* Every outcome of a _analyze_single_site call made so far.
SiteOutcomes ==
    {o \in {your_analysis} \cup {competitor_results[i] : i \in DOMAIN competitor_results} :
        o.kind # "none"}

Distinct(domains) ==
    \A i, j \in DOMAIN domains : domains[i] = domains[j] => i = j

\* C2: analyze_competitors analyses at most the first 5 entries of
\* competitor_domains, and the competitors mapping has at most 5 entries, each
\* of them one of the first 5 domains.
C2_AtMostFiveCompetitors ==
    /\ DOMAIN task_state \subseteq 1..5
    /\ Cardinality(DOMAIN competitor_analyses) <= 5
    /\ \A d \in DOMAIN competitor_analyses :
           \E i \in 1..Min(Len(competitor_domains), 5) : competitor_domains[i] = d

\* Seven distinct competitor domains, all five analysed ones stored, the last
\* two absent.
C2_Witness ==
    /\ pc = "done"
    /\ Len(competitor_domains) = 7
    /\ Distinct(competitor_domains)
    /\ DOMAIN competitor_analyses = {competitor_domains[i] : i \in 1..5}
    /\ competitor_domains[6] \notin DOMAIN competitor_analyses
    /\ competitor_domains[7] \notin DOMAIN competitor_analyses

\* C3 (as claimed): a competitor whose crawl returned no page is omitted from
\* the competitors mapping; with three competitors of which exactly one fails
\* the mapping has exactly 2 entries.
C3_FailedCompetitorOmitted ==
    pc = "done" =>
        /\ \A d \in DOMAIN competitor_analyses : competitor_analyses[d].pages > 0
        /\ ( /\ Len(competitor_domains) = 3
             /\ Distinct(competitor_domains)
             /\ Cardinality({i \in 1..3 : competitor_results[i].kind # "analysis"}) = 1
             /\ \E i \in 1..3 : competitor_results[i].kind = "error" )
           => Cardinality(DOMAIN competitor_analyses) = 2

\* C4 (as claimed): when the primary analysis fails because no page was
\* crawled, analyze_competitors goes on to no competitor analysis and returns
\* no result built on the failed primary analysis.
C4_PrimaryFailureIsFatal ==
    (your_analysis.kind # "none" /\ your_analysis.pages = 0) => pc \notin {"gather", "done"}

\* C5: an exception of a competitor analysis never becomes the outcome of
\* analyze_competitors, and when analyze_competitors returns, every task has
\* completed and every competitor whose analysis returned is in the mapping.
C5_FailuresAreIsolated ==
    /\ pc = "raised" => IsException(your_analysis)
    /\ pc = "done" =>
           \A i \in DOMAIN task_state :
               /\ task_state[i] = "done"
               /\ competitor_results[i].kind # "none"
               /\ ~IsException(competitor_results[i])
                      => competitor_domains[i] \in DOMAIN competitor_analyses

\* A returned comparison in which one competitor analysis raised and another
\* one, not the same domain, is in the mapping.
C5_Witness ==
    /\ pc = "done"
    /\ \E i, j \in DOMAIN task_state :
           /\ IsException(competitor_results[i])
           /\ ~IsException(competitor_results[j])
           /\ competitor_domains[i] # competitor_domains[j]
           /\ competitor_domains[j] \in DOMAIN competitor_analyses

\* C6: the number of competitor analyses in progress is at most max_concurrent.
C6_BoundedConcurrency == Cardinality(Running) <= max_concurrent

\* The limit is reached while another task waits for the semaphore.
C6_Witness ==
    /\ Cardinality(Running) = max_concurrent
    /\ \E i \in DOMAIN task_state : task_state[i] = "waiting"

\* C7: the analysis stored under key d is the analysis of d.
C7_KeyedByOriginatingDomain ==
    pc = "done" =>
        \A d \in DOMAIN competitor_analyses : competitor_analyses[d].domain = d

\* A returned comparison with at least two entries whose analyses completed
\* in another order than the order of the list.
C7_Witness ==
    /\ pc = "done"
    /\ out_of_order
    /\ Cardinality(DOMAIN competitor_analyses) >= 2

\* C9 (as claimed): a site analysis whose crawl returned no page ends in an
\* error, never in a returned record.
C9_EmptyCrawlRaises ==
    \A o \in SiteOutcomes : o.pages = 0 => IsException(o)

\* ------------------------------------------------------------------------
\* Properties of _analyze_trends
\* ------------------------------------------------------------------------

\* The stored histories of the call, by key of the trends dict.
TrendHistory ==
    [ai_citations |-> historical_data.ai_citations,
     organic_traffic |-> historical_data.organic_sessions,
     search_rankings |-> historical_data.avg_position]

TrendMetrics == {"ai_citations", "organic_traffic", "search_rankings"}

\* C10 (as claimed): when the first value of a metric's comparison window is
\* 0, the call returns and reports insufficient-data with strength 0 for that
\* metric.
C10_ZeroFirstValueIsInsufficientData ==
    trend_pc \in {"returned", "raised"} =>
        \A m \in TrendMetrics :
            (TrendHistory[m] # <<>> /\ RecentValues(TrendHistory[m])[1] = 0) =>
                /\ trend_pc = "returned"
                /\ trends[m].direction = "insufficient_data"
                /\ trends[m].strength10 = 0

TrendCurrent ==
    [ai_citations |-> current_metrics.count,
     organic_traffic |-> current_metrics.sessions,
     search_rankings |-> current_metrics.avg_position]

\* C11: a metric with fewer than 2 stored points is reported with direction
\* insufficient-data and strength 0, whatever the current value is.
C11_FewerThanTwoPoints ==
    trend_pc = "returned" =>
        \A m \in TrendMetrics :
            Len(TrendHistory[m]) < 2 =>
                /\ trends[m].direction = "insufficient_data"
                /\ trends[m].strength10 = 0

\* C11 witness: the history [100] with current value 110 was analysed and
\* gave insufficient-data.
C11_Witness ==
    /\ trend_pc = "returned"
    /\ historical_data.ai_citations = <<100>>
    /\ current_metrics.count = 110
    /\ trends.ai_citations.direction = "insufficient_data"
    /\ trends.ai_citations.strength10 = 0

\* C12 (as claimed): the comparison window is the most recent 7 stored points
\* followed by the current value, so each metric with a trend is compared
\* first stored value of the window against current value; the rankings
\* history [100,120] with current value 80 gives up with strength 20.0.
C12_WindowEndsWithCurrentValue ==
    trend_pc = "returned" =>
        \A m \in TrendMetrics :
            Len(TrendHistory[m]) >= 2 =>
                LET first == RecentValues(TrendHistory[m])[1]
                    last == TrendCurrent[m]
                    better == IF m = "search_rankings" THEN last < first ELSE last > first
                IN  /\ trends[m].direction = "up" <=> better
                    /\ trends[m].strength10 = RoundHalfEven(Abs(last - first) * 1000, first)

\* C13: with at least 2 stored points, the rankings metric is up when the
\* last value of its window is lower than the first, the AI-citations and
\* organic-traffic metrics are up when the last value is higher than the
\* first, and the strength is |last - first| / first * 100 (to one decimal).
C13_RankingPolarityInverted ==
    trend_pc = "returned" =>
        \A m \in TrendMetrics :
            Len(TrendHistory[m]) >= 2 =>
                LET window == RecentValues(TrendHistory[m])
                    first == window[1]
                    last == window[Len(window)]
                IN  /\ (m = "search_rankings" /\ last < first) => trends[m].direction = "up"
                    /\ (m # "search_rankings" /\ last > first) => trends[m].direction = "up"
                    /\ (m = "search_rankings" /\ last > first) => trends[m].direction = "down"
                    /\ (m # "search_rankings" /\ last < first) => trends[m].direction = "down"
                    /\ 10 * trends[m].strength10 * first - 5 * first <= Abs(last - first) * 10000
                    /\ Abs(last - first) * 10000 <= 10 * trends[m].strength10 * first + 5 * first

\* C13 witness: the position fell from 120 to 100 and is reported up, while
\* the citations rose from 100 to 120 and are reported up, strength 20.0.
C13_Witness ==
    /\ trend_pc = "returned"
    /\ historical_data.avg_position = <<120, 100>>
    /\ trends.search_rankings.direction = "up"
    /\ trends.search_rankings.strength10 = 167
    /\ historical_data.ai_citations = <<100, 120>>
    /\ trends.ai_citations.direction = "up"
    /\ trends.ai_citations.strength10 = 200

\* ------------------------------------------------------------------------
\* Properties of _analyze_authority_signals
\* ------------------------------------------------------------------------

\* C8 (as claimed): the authority signals are a function of the domain string
\* alone: any two calls with the same domain string, in the same run or in
\* different runs, return identical values.
C8_AuthorityDependsOnDomainOnly ==
    \A a, b \in authority_seen : a.domain = b.domain => a.signals = b.signals

\* ------------------------------------------------------------------------
\* Properties of the scores
\* ------------------------------------------------------------------------

\* C1 (as claimed): the technical, content-depth, AI-readiness and structure
\* scores, the per-page overall score and the site-level overall score of
\* every site analysis lie in [0,100] (the last two are kept in tenths).
C1_ScoresWithinRange ==
    site_analysis.kind = "analysis" =>
        LET sc == site_analysis.scores
        IN  /\ 0 <= sc.technical_score /\ sc.technical_score <= 100
            /\ 0 <= sc.content_depth_score /\ sc.content_depth_score <= 100
            /\ 0 <= sc.ai_score /\ sc.ai_score <= 100
            /\ 0 <= sc.structure_score /\ sc.structure_score <= 100
            /\ 0 <= sc.page_overall_score10 /\ sc.page_overall_score10 <= 1000
            /\ 0 <= sc.overall_score10 /\ sc.overall_score10 <= 1000

\* ------------------------------------------------------------------------
\* Properties of the score functions
\* ------------------------------------------------------------------------

Returned(fn) == score_pc = "returned" /\ score_call.fn = fn

\* C14: the technical score is the sum of the point table (load time below
\* 2 s 25, below 4 s 15, else 5; title 15; meta description 15; 5 per schema
\* up to 20; one H1 15, several H1s 5; 3 or more headings 10) capped at 100,
\* which for a count of schemas that is not negative is the sum clamped to
\* [0,100].
C14_TechnicalScoreTable ==
    Returned("_calculate_technical_score") =>
        LET c == score_call
            points == (IF c.load_time < 2000 THEN 25 ELSE IF c.load_time < 4000 THEN 15 ELSE 5)
                      + (IF c.has_title THEN 15 ELSE 0)
                      + (IF c.has_meta THEN 15 ELSE 0)
                      + (IF 5 * c.schema_count < 20 THEN 5 * c.schema_count ELSE 20)
                      + (IF c.h1 = 1 THEN 15 ELSE IF c.h1 > 1 THEN 5 ELSE 0)
                      + (IF c.h1 + c.h2 >= 3 THEN 10 ELSE 0)
        IN  /\ score_result = (IF points > 100 THEN 100 ELSE points)
            /\ c.schema_count >= 0 =>
                   score_result = (IF points < 0 THEN 0 ELSE IF points > 100 THEN 100 ELSE points)

\* C14 witness: no title, no meta description, no H1, no schema, load time
\* 1.5 s and 4 H2 headings score 35.
C14_Witness ==
    /\ Returned("_calculate_technical_score")
    /\ score_call.load_time = 1500
    /\ ~score_call.has_title /\ ~score_call.has_meta
    /\ score_call.schema_count = 0
    /\ score_call.h1 = 0 /\ score_call.h2 = 4
    /\ score_result = 35

\* C15: the AI-readiness score is min(100, min(30, 5 * questions) + 20 if
\* there is an FAQ indicator + min(25, 8 * schemas) + min(15, 3 * answer
\* patterns) + min(10, 2 * list patterns)).
C15_AiScoreTable ==
    Returned("_calculate_ai_score") =>
        LET c == score_call
            Cap(x, top) == IF x > top THEN top ELSE x
            points == Cap(5 * c.questions, 30)
                      + (IF c.faq_indicators >= 1 THEN 20 ELSE 0)
                      + Cap(8 * c.schemas, 25)
                      + Cap(3 * c.answer_patterns, 15)
                      + Cap(2 * c.list_patterns, 10)
        IN  score_result = Cap(points, 100)

\* C15 witness: 6 questions, 1 FAQ indicator, 2 schema blocks, 0 answer
\* patterns and 3 list patterns score 72.
C15_Witness ==
    /\ Returned("_calculate_ai_score")
    /\ score_call.questions = 6 /\ score_call.faq_indicators = 1
    /\ score_call.schemas = 2 /\ score_call.answer_patterns = 0
    /\ score_call.list_patterns = 3
    /\ score_result = 72

\* The case of C16: exactly one H1, no hierarchy issue, 5 or more headings,
\* a table-of-contents marker and 3 or more content sections.
WellStructured ==
    /\ Returned("_calculate_structure_score")
    /\ score_call.h1_count = 1
    /\ score_call.hierarchy_issues = 0
    /\ score_call.total_headings >= 5
    /\ score_call.toc_count >= 1
    /\ score_call.sections >= 3

\* C16 (as claimed): a page with exactly one H1, zero hierarchy issues, at
\* least 5 headings, a table-of-contents marker and at least 3 content
\* sections gets structure score 80.
C16_WellStructuredScores80 == WellStructured => score_result = 80

\* C16 (amended): such a page gets structure score 100: 15 + 15 + 10 + 20 +
\* 20 = 80 before the bonus, and the bonus of 20 on top.
C16_WellStructuredScores100 == WellStructured => score_result = 100

\* C16 witness: such a page was scored.
C16_Witness == WellStructured /\ score_call.sections = 3 /\ score_result = 100

\* C17: the structure score is the capped sum of 15 for exactly one H1, 10
\* for zero hierarchy issues (either without the other), 15 for 3 or more
\* headings, 20 for a table-of-contents marker, 20 for 3 or more sections or
\* 10 for 1-2 sections, and a bonus of 20 exactly when that subtotal is at
\* least 60 and there are 5 or more headings.
C17_StructureScoreTable ==
    Returned("_calculate_structure_score") =>
        LET c == score_call
            subtotal == (IF c.h1_count = 1 THEN 15 ELSE 0)
                        + (IF c.hierarchy_issues = 0 THEN 10 ELSE 0)
                        + (IF c.total_headings >= 3 THEN 15 ELSE 0)
                        + (IF c.toc_count >= 1 THEN 20 ELSE 0)
                        + (IF c.sections >= 3 THEN 20 ELSE IF c.sections >= 1 THEN 10 ELSE 0)
            bonus == IF subtotal >= 60 /\ c.total_headings >= 5 THEN 20 ELSE 0
            total == subtotal + bonus
        IN  score_result = (IF total > 100 THEN 100 ELSE IF total < 0 THEN 0 ELSE total)

\* C17 witness: a single H1 with a hierarchy issue earns its 15 points, and
\* nothing else is earned.
C17_Witness ==
    /\ Returned("_calculate_structure_score")
    /\ score_call.h1_count = 1 /\ score_call.hierarchy_issues = 1
    /\ score_call.total_headings = 2
    /\ score_call.toc_count = 0 /\ score_call.sections = 0
    /\ score_result = 15

\* C19: the per-page overall score is the word-count band (300..2500 words
\* 25, more 20, 100..299 15, fewer 5) + 8 for a title + 8 for a meta
\* description + 9 for exactly one H1 + AI-readiness score / 4 + structure
\* score / 4, to one decimal and with no clamp.  score_result is in tenths,
\* so 4 * score_result is within 2 of 10 * (4 * points + ai + structure).
C19_OverallScoreTable ==
    Returned("_calculate_overall_score") =>
        LET c == score_call
            points == (IF c.word_count > 2500 THEN 20
                       ELSE IF c.word_count >= 300 THEN 25
                       ELSE IF c.word_count >= 100 THEN 15
                       ELSE 5)
                      + (IF c.title_length > 0 THEN 8 ELSE 0)
                      + (IF c.meta_length > 0 THEN 8 ELSE 0)
                      + (IF c.h1_count = 1 THEN 9 ELSE 0)
            exact40 == 10 * (4 * points + c.ai_score + c.structure_score)
        IN  /\ exact40 - 2 <= 4 * score_result
            /\ 4 * score_result <= exact40 + 2

\* C19 witness: 50 words, no title, no meta description, no H1, AI score 21
\* and structure score 10 give 5 + 5.25 + 2.5 = 12.75, reported as 12.8.
C19_Witness ==
    /\ Returned("_calculate_overall_score")
    /\ score_call.word_count = 50
    /\ score_call.title_length = 0 /\ score_call.meta_length = 0
    /\ score_call.h1_count = 0
    /\ score_call.ai_score = 21 /\ score_call.structure_score = 10
    /\ score_result = 128

\* ------------------------------------------------------------------------
\* Properties of the site analysis
\* ------------------------------------------------------------------------

C20_SiteScoreWeightsContentDepth ==
    site_analysis.kind = "analysis" =>
        LET sc == site_analysis.scores
            exact100 == 40 * sc.content_depth_score + 35 * sc.technical_score + 25 * sc.ai_score
        IN  /\ exact100 - 5 <= 10 * sc.overall_score10
            /\ 10 * sc.overall_score10 <= exact100 + 5

\* ------------------------------------------------------------------------
\* Further properties of _analyze_trends
\* ------------------------------------------------------------------------

\* C29 (as claimed): every reported direction is one of up, down, stable,
\* insufficient-data; a window whose first and last values are equal is
\* reported stable with strength 0; and the warning 'AI Citations Declining'
\* is generated only when the citations decreased over the window.
C29_EqualValuesAreStable ==
    trend_pc = "returned" =>
        /\ \A m \in TrendMetrics :
               /\ trends[m].direction \in {"up", "down", "stable", "insufficient_data"}
               /\ Len(TrendHistory[m]) >= 2 =>
                      LET window == RecentValues(TrendHistory[m])
                      IN  window[1] = window[Len(window)] =>
                              /\ trends[m].direction = "stable"
                              /\ trends[m].strength10 = 0
        /\ AiCitationsDeclining(trends) =>
               LET window == RecentValues(TrendHistory["ai_citations"])
               IN  window[Len(window)] < window[1]

\* ------------------------------------------------------------------------
\* Further properties of the site analysis
\* ------------------------------------------------------------------------

\* C27 (as claimed): in a site analysis has_title_tag is true exactly when
\* the crawled home page has a non-empty title element.
C27_HasTitleTagReadsTitleElement ==
    site_analysis.kind = "analysis" =>
        (site_analysis.scores.has_title_tag <=> fetched[1].html.title)

\* ------------------------------------------------------------------------
\* Properties of the extraction of one page
\* ------------------------------------------------------------------------

\* The headings of the page that are outside header, nav, footer and aside.
ContentHeadings == SelectSeq(page_html.headings, LAMBDA h : ~h.boilerplate)

\* C21 (as claimed): the hierarchy issues of a page are the pairs of
\* headings adjacent in document order whose second level exceeds the first
\* by more than 1 (H2, H4, H3 in that order: one issue).
C21_IssuesInDocumentOrder ==
    page_pc = "analyzed" =>
        page_result.hierarchy_issues =
            Cardinality({k \in 1..(Len(ContentHeadings) - 1) :
                ContentHeadings[k + 1].level > ContentHeadings[k].level + 1})

\* C26 (as claimed): text extraction does not change what the later steps
\* see: in analyze_content and in the crawler's extraction the schema count
\* is the number of ld+json blocks of the page and the heading count is the
\* number of its headings, those inside header, nav, footer and aside
\* included.
C26_ExtractionLeavesPageIntact ==
    /\ page_pc = "analyzed" =>
           /\ page_result.total_schemas = page_html.ld_json
           /\ page_result.total_headings = Len(page_html.headings)
    /\ page_pc = "crawled" =>
           /\ IntGet(page_result.meta_data, "structured_data_count") = page_html.ld_json
           /\ SeqSum(HeadingCounts(page_result.meta_data)) = Len(page_html.headings)

\* ------------------------------------------------------------------------
\* Properties of the insights and recommendations
\* ------------------------------------------------------------------------

InsightsMade == ins_pc \in {"insights", "done"}

Scored(analysis) == analysis.kind = "analysis"

AllScored ==
    /\ Scored(ins_your_analysis)
    /\ \A k \in 1..Len(ins_competitors) : Scored(ins_competitors[k])

Emitted(area, k) ==
    \E j \in 1..Len(insights.opportunity_areas) :
        insights.opportunity_areas[j] = [area |-> area, domain |-> k]

\* C22: the recommendations are determined by the insights, in this order:
\* High 'AI Optimization' iff the AI comparison says 'below average', Medium
\* 'Content Strategy' iff there is a content gap, High 'Technical SEO' iff
\* there is a technical disadvantage, then one Medium recommendation for each
\* of the first 3 opportunity insights, in insight order, and no other.
C22_RecommendationsFollowInsights ==
    ins_pc = "done" =>
        LET ai == IF insights.ai_readiness_comparison.performance = "below average" THEN 1 ELSE 0
            gap == IF Len(insights.content_gaps) >= 1 THEN 1 ELSE 0
            tech == IF Len(insights.technical_disadvantages) >= 1 THEN 1 ELSE 0
            opp == insights.opportunity_areas
            nopp == IF Len(opp) > 3 THEN 3 ELSE Len(opp)
            r == recommendations
        IN  /\ Len(r) = ai + gap + tech + nopp
            /\ ai = 1 => r[1].category = "AI Optimization" /\ r[1].priority = "High"
            /\ gap = 1 => /\ r[ai + 1].category = "Content Strategy"
                          /\ r[ai + 1].priority = "Medium"
            /\ tech = 1 => /\ r[ai + gap + 1].category = "Technical SEO"
                           /\ r[ai + gap + 1].priority = "High"
            /\ \A k \in 1..nopp :
                   /\ r[ai + gap + tech + k].category = "Competitive Opportunity"
                   /\ r[ai + gap + tech + k].priority = "Medium"
                   /\ r[ai + gap + tech + k].opportunity = opp[k]

\* C22 witness: four opportunity insights and the three other conditions
\* gave six recommendations.
C22_Witness ==
    /\ ins_pc = "done"
    /\ Len(insights.opportunity_areas) = 4
    /\ Len(recommendations) = 6
    /\ recommendations[1].category = "AI Optimization"
    /\ recommendations[6].opportunity = insights.opportunity_areas[3]

\* C23: with a primary that has scores, an opportunity insight naming a
\* competitor is emitted for AI optimization iff the competitor's
\* AI-readiness score is more than 20 above the primary's, and one for
\* content strategy iff its content-depth score is more than 15 above the
\* primary's; a competitor without scores gets none.
C23_OpportunityThresholds ==
    (InsightsMade /\ Scored(ins_your_analysis)) =>
        \A k \in 1..Len(ins_competitors) :
            LET c == ins_competitors[k]
            IN  /\ Emitted("AI optimization", k) <=>
                       (Scored(c) /\ c.ai_score - ins_your_analysis.ai_score > 20)
                /\ Emitted("Content strategy", k) <=>
                       (Scored(c) /\ c.content_score - ins_your_analysis.content_score > 15)

\* C23 witness: the first competitor is exactly 20 and 15 points above the
\* primary and gets no insight, the second is 21 and 16 above and gets both.
C23_Witness ==
    /\ InsightsMade /\ Scored(ins_your_analysis)
    /\ Len(ins_competitors) = 2
    /\ Scored(ins_competitors[1])
    /\ ins_competitors[1].ai_score = ins_your_analysis.ai_score + 20
    /\ ins_competitors[1].content_score = ins_your_analysis.content_score + 15
    /\ ~Emitted("AI optimization", 1) /\ ~Emitted("Content strategy", 1)
    /\ Emitted("AI optimization", 2) /\ Emitted("Content strategy", 2)

\* C24: with at least one competitor exactly one of a technical advantage
\* and a technical disadvantage is emitted; when the primary and all
\* competitors have scores, it is the advantage iff the primary's technical
\* score is strictly above the competitors' mean, and a content gap is
\* emitted iff the primary's content-depth score is strictly below the mean.
C24_TechnicalAndContentInsights ==
    (InsightsMade /\ Len(ins_competitors) >= 1) =>
        LET n == Len(ins_competitors)
            tech_sum == SeqSum([k \in 1..n |-> ins_competitors[k].technical_score])
            content_sum == SeqSum([k \in 1..n |-> ins_competitors[k].content_score])
        IN  /\ Len(insights.technical_advantages) + Len(insights.technical_disadvantages) = 1
            /\ Len(insights.content_gaps) <= 1
            /\ AllScored =>
                   /\ Len(insights.technical_advantages) = 1
                          <=> ins_your_analysis.technical_score * n > tech_sum
                   /\ Len(insights.content_gaps) = 1
                          <=> ins_your_analysis.content_score * n < content_sum

\* C24 witness: the primary's technical and content-depth scores equal the
\* means of two competitors: a disadvantage and no content gap.
C24_Witness ==
    /\ InsightsMade /\ AllScored
    /\ Len(ins_competitors) = 2
    /\ 2 * ins_your_analysis.technical_score
           = ins_competitors[1].technical_score + ins_competitors[2].technical_score
    /\ 2 * ins_your_analysis.content_score
           = ins_competitors[1].content_score + ins_competitors[2].content_score
    /\ Len(insights.technical_disadvantages) = 1
    /\ insights.content_gaps = <<>>

\* C25 (as claimed): when the primary and all competitors have scores, the
\* comparison reports the competitors' mean and maximum AI-readiness score,
\* says 'above average' when the primary is above the mean and 'below
\* average' when it is below, and does not say 'below average' when the
\* primary's score equals the mean.
C25_AiComparisonLabel ==
    (InsightsMade /\ Len(ins_competitors) >= 1 /\ AllScored) =>
        LET n == Len(ins_competitors)
            ai_sum == SeqSum([k \in 1..n |-> ins_competitors[k].ai_score])
            yours == ins_your_analysis.ai_score
            cmp == insights.ai_readiness_comparison
        IN  /\ cmp.competitor_average10 = RoundHalfEven(10 * ai_sum, n)
            /\ \A k \in 1..n : cmp.best_competitor >= ins_competitors[k].ai_score
            /\ \E k \in 1..n : cmp.best_competitor = ins_competitors[k].ai_score
            /\ yours * n > ai_sum => cmp.performance = "above average"
            /\ yours * n < ai_sum => cmp.performance = "below average"
            /\ yours * n = ai_sum => cmp.performance # "below average"

\* C28 (as claimed): the competitors' mean and maximum behind the insights
\* are taken over the competitors that have scores only: a competitor no
\* page of which was crawled does not count as a score of 0.
C28_MeansOverScoredCompetitors ==
    (InsightsMade /\ Scored(ins_your_analysis)
        /\ \E k \in 1..Len(ins_competitors) : Scored(ins_competitors[k])) =>
        LET scored == SelectSeq(ins_competitors, Scored)
            n == Len(scored)
            ai_sum == SeqSum([k \in 1..n |-> scored[k].ai_score])
            content_sum == SeqSum([k \in 1..n |-> scored[k].content_score])
            tech_sum == SeqSum([k \in 1..n |-> scored[k].technical_score])
            cmp == insights.ai_readiness_comparison
        IN  /\ cmp.competitor_average10 = RoundHalfEven(10 * ai_sum, n)
            /\ ins_your_analysis.ai_score * n > ai_sum => cmp.performance = "above average"
            /\ ins_your_analysis.ai_score * n < ai_sum => cmp.performance = "below average"
            /\ Len(insights.content_gaps) = 1
                   <=> ins_your_analysis.content_score * n < content_sum
            /\ Len(insights.technical_advantages) = 1
                   <=> ins_your_analysis.technical_score * n > tech_sum

\* ------------------------------------------------------------------------
\* Properties of crawl_website
\* ------------------------------------------------------------------------

\* C30 (as claimed): within one crawl_website call no URL is requested more
\* than once, whatever the order in which the fetches of a batch complete,
\* and the call returns at most max_pages results.
C30_NoUrlRequestedTwice ==
    crawl_pc \in {"loop", "batch", "done"} =>
        /\ \A u \in Urls : requests[u] <= 1
        /\ Len(page_results) <= max_pages

====
